---- MODULE Spec2Model ----
(***************************************************************************)
(* facatura: company / client / bank-account record management over one    *)
(* SQLite file.  The state is the content of the three tables and of        *)
(* sqlite_sequence (the AUTOINCREMENT counters); every public method of     *)
(* BankAccount, Company and Client is one action.  A method is a sequence   *)
(* of SQL statements grouped in `with self.db_manager:` scopes; a scope     *)
(* commits when it is left normally and rolls back when it is left by an    *)
(* exception.                                                               *)
(***************************************************************************)
EXTENDS Integers, Sequences, FiniteSets, TLC

VARIABLES companies, clients, bank_accounts, sqlite_sequence, currency_exchange,
          conn, pc, txn

vars == <<companies, clients, bank_accounts, sqlite_sequence, currency_exchange,
          conn, pc, txn>>

(***************************************************************************)
(* Bounds of the model.                                                     *)
(***************************************************************************)
\* Spec (every method of the three classes): ids issued per table
MaxCompanyId == 1
MaxClientId == 1
MaxAccountId == 1
\* SpecBank (the methods of BankAccount alone): account ids issued
BankMaxAccountId == 2
\* SpecEntity (create / update / delete of Company and Client): ids issued per table
EntityMaxCompanyId == 2
EntityMaxClientId == 2
\* SpecOwner (entities and their accounts through Company / Client): ids issued
OwnerMaxEntityId == 1
OwnerMaxAccountId == 2
\* SpecUpdate (the three update methods on rows made by create): ids issued
UpdateMaxEntityId == 1
UpdateMaxAccountId == 2
\* SpecSetup (setup_database run again on a database in use): days it runs on,
\* ids issued per entity table
MaxDate == 2
SetupMaxEntityId == 2
\* SpecScope (one scope of the gateway, statement by statement): account ids
\* issued, statements per scope
ScopeMaxAccountId == 2
MaxStatements == 2
\* keyword arguments passed to one update call
MaxKwargs == 2
\* lines typed at one confirmation prompt
MaxAnswers == 2

(***************************************************************************)
(* Values.  SQL NULL / Python None is NULL for text columns and 0 for the   *)
(* integer column default_bank_account (row ids start at 1).                *)
(***************************************************************************)
NULL == "<NULL>"
NoId == 0

EntityTypes == {"company", "client"}
FiscalCodes == {"RO1", "RO2"}
OneFiscalCode == {"RO1"}
AccountNumbers == {"A1", "A2"}
RequiredText == {"", "x"}

\* a value is falsy for Python's `not v`: None or the empty string
Falsy(v) == v = "" \/ v = NULL

\* sqlite3 adapts a Python bool to INTEGER 0 / 1 when it binds a parameter
BoolToInt(b) == IF b THEN 1 ELSE 0

\* Python truthiness of a value read from / bound to a BOOLEAN column
Truthy(i) == i # 0

(***************************************************************************)
(* The database: a snapshot of the tables, so that a scope can roll back.   *)
(***************************************************************************)
DB == [companies |-> companies, clients |-> clients,
       bank_accounts |-> bank_accounts, seq |-> sqlite_sequence]

Table(db, t) == IF t = "company" THEN db.companies ELSE db.clients

WithTable(db, t, rows) ==
    IF t = "company" THEN [db EXCEPT !.companies = rows]
                     ELSE [db EXCEPT !.clients = rows]

TableName(t) == IF t = "company" THEN "companies" ELSE "clients"

\* extend / shrink a table (a function from row id to row)
Put(rows, id, row) == [i \in DOMAIN rows \cup {id} |-> IF i = id THEN row ELSE rows[i]]

Remove(rows, ids) == [i \in DOMAIN rows \ ids |-> rows[i]]

(***************************************************************************)
(* Storage gateway.  A statement either yields the new database or raises   *)
(* (constraint violation, or an engine failure injected at statement number *)
(* `fail`); a raising statement changes nothing.  The result of a block of  *)
(* statements is [db, raised, n] where n counts the statements tried.       *)
(***************************************************************************)
Execute(r, newdb, constraintsHold, fail) ==
    IF r.raised THEN r
    ELSE IF fail = r.n + 1 \/ ~constraintsHold
         THEN [db |-> r.db, raised |-> TRUE, n |-> r.n + 1, fault |-> (fail = r.n + 1)]
         ELSE [db |-> newdb, raised |-> FALSE, n |-> r.n + 1, fault |-> FALSE]

\* state of a block before its first statement; n0 statements ran before it
Enter(db, n0) == [db |-> db, raised |-> FALSE, n |-> n0, fault |-> FALSE]

ExitCommit(committed, r) == r.db

\* leaving a `with self.db_manager:` scope: commit, or roll back to `committed`
Exit(committed, r) == IF r.raised THEN committed ELSE r.db

\* db_manager.rollback(): the open transaction is undone
Rollback(committed, r) == committed

\* no scope is entered: no transaction
NoTransaction == [db |-> << >>, raised |-> FALSE, n |-> 0, fault |-> FALSE]

(***************************************************************************)
(* bank_accounts statements                                                 *)
(***************************************************************************)
\* UPDATE bank_accounts SET is_default = 0 WHERE entity_id = ? AND entity_type = ?
OwnedByAnyType(row, entity_id, entity_type) == row.entity_id = entity_id

\* WHERE entity_id = ? AND entity_type = ?
OwnedBy(row, entity_id, entity_type) ==
    row.entity_id = entity_id /\ row.entity_type = entity_type

ClearDefaultNone(db, entity_id, entity_type) == db

ClearDefault(db, entity_id, entity_type) ==
    [db EXCEPT !.bank_accounts =
        [a \in DOMAIN db.bank_accounts |->
            IF OwnedBy(db.bank_accounts[a], entity_id, entity_type)
            THEN [db.bank_accounts[a] EXCEPT !.is_default = 0]
            ELSE db.bank_accounts[a]]]

\* UNIQUE(entity_id, entity_type, account_number), for the row `id` about to be
\* written with the given key
AccountKeyFree(db, id, entity_id, entity_type, account_number) ==
    \A a \in DOMAIN db.bank_accounts \ {id} :
        ~ /\ db.bank_accounts[a].entity_id = entity_id
          /\ db.bank_accounts[a].entity_type = entity_type
          /\ db.bank_accounts[a].account_number = account_number

InsertAccountMaxRowid(db, row) ==
    LET id == IF DOMAIN db.bank_accounts = {} THEN 1
              ELSE 1 + CHOOSE i \in DOMAIN db.bank_accounts :
                           \A j \in DOMAIN db.bank_accounts : j <= i
    IN  [db EXCEPT !.bank_accounts = Put(db.bank_accounts, id, row),
                   !.seq.bank_accounts = id]

\* INSERT INTO bank_accounts (...): AUTOINCREMENT takes the next id of sqlite_sequence
InsertAccount(db, row) ==
    LET id == db.seq.bank_accounts + 1
    IN  [db EXCEPT !.bank_accounts = Put(db.bank_accounts, id, row),
                   !.seq.bank_accounts = id]

\* DELETE FROM bank_accounts WHERE id = ?
DeleteAccountRow(db, id) == [db EXCEPT !.bank_accounts = Remove(db.bank_accounts, {id})]

\* SELECT * FROM bank_accounts WHERE entity_id = ? AND entity_type = ?
AccountsOf(db, entity_id, entity_type) ==
    {a \in DOMAIN db.bank_accounts :
        /\ db.bank_accounts[a].entity_id = entity_id
        /\ db.bank_accounts[a].entity_type = entity_type}

\* the result of a method: the database it leaves, how it ended, what it returned
Result(db, outcome, ret, fault) == [db |-> db, outcome |-> outcome, ret |-> ret, fault |-> fault]

Raised(db, r) == Result(db, "DatabaseError", 0, r.fault)

True == 1
False == 0

(***************************************************************************)
(* BankAccount                                                              *)
(***************************************************************************)
\* BankAccount.get: SELECT * FROM bank_accounts WHERE id = ?
AccountExists(db, account_id) == account_id \in DOMAIN db.bank_accounts

\* BankAccount.create
BankAccountCreateClearFirst(db, bank_name, account_number, entity_id, entity_type, swift_code, iban, currency, is_default, fail) ==
    LET r1 == IF is_default
              THEN Execute(Enter(db, 0), ClearDefault(db, entity_id, entity_type),
                           TRUE, fail)
              ELSE Enter(db, 0)
        db1 == Exit(db, r1)
        row == [bank_name |-> bank_name, account_number |-> account_number,
                swift_code |-> swift_code, iban |-> iban, currency |-> currency,
                entity_id |-> entity_id, entity_type |-> entity_type,
                is_default |-> BoolToInt(is_default)]
        r2 == Execute(Enter(db1, r1.n), InsertAccount(db1, row),
                      AccountKeyFree(db1, NoId, entity_id, entity_type, account_number),
                      fail)
        db2 == Exit(db1, r2)
    IN  IF r1.raised THEN Raised(db1, r1)
        ELSE IF \/ Falsy(bank_name) \/ Falsy(account_number)
                \/ entity_id <= 0 \/ entity_type \notin {"company", "client"}
        THEN Result(db1, "ValueError", 0, FALSE)
        ELSE IF r2.raised THEN Raised(db2, r2)
        ELSE Result(db2, "ok", db2.seq.bank_accounts, FALSE)

BankAccountCreate(db, bank_name, account_number, entity_id, entity_type, swift_code, iban, currency, is_default, fail) ==
    IF \/ Falsy(bank_name) \/ Falsy(account_number)
       \/ entity_id <= 0 \/ entity_type \notin {"company", "client"}
    THEN Result(db, "ValueError", 0, FALSE)
    ELSE LET \* first scope: unset any existing default of the entity
             r1 == IF is_default
                   THEN Execute(Enter(db, 0), ClearDefault(db, entity_id, entity_type),
                                TRUE, fail)
                   ELSE Enter(db, 0)
             db1 == Exit(db, r1)
             \* second scope: insert the new row
             row == [bank_name |-> bank_name, account_number |-> account_number,
                     swift_code |-> swift_code, iban |-> iban, currency |-> currency,
                     entity_id |-> entity_id, entity_type |-> entity_type,
                     is_default |-> BoolToInt(is_default)]
             r2 == Execute(Enter(db1, r1.n), InsertAccount(db1, row),
                           AccountKeyFree(db1, NoId, entity_id, entity_type, account_number),
                           fail)
             db2 == Exit(db1, r2)
         IN  IF r1.raised THEN Raised(db1, r1)
             ELSE IF r2.raised THEN Raised(db2, r2)
             ELSE Result(db2, "ok", db2.seq.bank_accounts, FALSE)

\* the fields BankAccount.update may write
BankAllowedFields == {"bank_name", "account_number", "swift_code", "iban", "currency",
                      "is_default"}

\* UPDATE bank_accounts SET <update_fields> WHERE id = ?
UpdateAccountRow(db, account_id, kw, update_fields) ==
    LET old == db.bank_accounts[account_id]
        new == [old EXCEPT
                  !.account_number = IF "account_number" \in update_fields
                                     THEN kw.account_number ELSE @,
                  !.is_default = IF "is_default" \in update_fields
                                 THEN BoolToInt(kw.is_default) ELSE @]
    IN  [db EXCEPT !.bank_accounts[account_id] = new]

\* BankAccount.update
BankAccountUpdateClearFirst(db, account_id, kw, fail) ==
    IF ~AccountExists(db, account_id) THEN Result(db, "ok", False, FALSE)
    ELSE LET account == db.bank_accounts[account_id]
             \* if setting as default, unset any existing default (own scope)
             r1 == IF "is_default" \in kw.keys /\ kw.is_default
                   THEN Execute(Enter(db, 0),
                                ClearDefault(db, account.entity_id, account.entity_type),
                                TRUE, fail)
                   ELSE Enter(db, 0)
             db1 == Exit(db, r1)
             update_fields == kw.keys \cap BankAllowedFields
             accountNumber == IF "account_number" \in update_fields
                              THEN kw.account_number ELSE account.account_number
             r2 == Execute(Enter(db1, r1.n),
                           UpdateAccountRow(db1, account_id, kw, update_fields),
                           /\ accountNumber # NULL
                           /\ AccountKeyFree(db1, account_id, account.entity_id,
                                             account.entity_type, accountNumber),
                           fail)
             db2 == Exit(db1, r2)
         IN  IF r1.raised THEN Raised(db1, r1)
             ELSE IF kw.keys \cap {"id", "entity_id", "entity_type"} # {}
             THEN Result(db1, "ValueError", 0, FALSE)
             ELSE IF update_fields = {} THEN Result(db1, "ok", True, FALSE)
             ELSE IF r2.raised THEN Raised(db2, r2)
             ELSE Result(db2, "ok", True, FALSE)

BankAccountUpdate(db, account_id, kw, fail) ==
    IF ~AccountExists(db, account_id) THEN Result(db, "ok", False, FALSE)
    ELSE IF kw.keys \cap {"id", "entity_id", "entity_type"} # {}
    THEN Result(db, "ValueError", 0, FALSE)
    ELSE LET account == db.bank_accounts[account_id]
             \* if setting as default, unset any existing default (own scope)
             r1 == IF "is_default" \in kw.keys /\ kw.is_default
                   THEN Execute(Enter(db, 0),
                                ClearDefault(db, account.entity_id, account.entity_type),
                                TRUE, fail)
                   ELSE Enter(db, 0)
             db1 == Exit(db, r1)
             update_fields == kw.keys \cap BankAllowedFields
             accountNumber == IF "account_number" \in update_fields
                              THEN kw.account_number ELSE account.account_number
             r2 == Execute(Enter(db1, r1.n),
                           UpdateAccountRow(db1, account_id, kw, update_fields),
                           /\ accountNumber # NULL
                           /\ AccountKeyFree(db1, account_id, account.entity_id,
                                             account.entity_type, accountNumber),
                           fail)
             db2 == Exit(db1, r2)
         IN  IF r1.raised THEN Raised(db1, r1)
             ELSE IF update_fields = {} THEN Result(db1, "ok", True, FALSE)
             ELSE IF r2.raised THEN Raised(db2, r2)
             ELSE Result(db2, "ok", True, FALSE)

\* BankAccount.delete
BankAccountDelete(db, account_id, fail) ==
    LET r == Execute(Enter(db, 0), DeleteAccountRow(db, account_id), TRUE, fail)
        db1 == Exit(db, r)
    IN  IF r.raised THEN Raised(db1, r)
        ELSE Result(db1, "ok", IF AccountExists(db, account_id) THEN True ELSE False, FALSE)

\* UPDATE bank_accounts SET is_default = 1 WHERE id = ?
SetDefaultRow(db, account_id) ==
    IF AccountExists(db, account_id)
    THEN [db EXCEPT !.bank_accounts[account_id].is_default = 1]
    ELSE db

BankAccountSetDefaultTwoScopes(db, account_id, fail) ==
    IF ~AccountExists(db, account_id) THEN Result(db, "ok", False, FALSE)
    ELSE LET account == db.bank_accounts[account_id]
             r1 == Execute(Enter(db, 0),
                           ClearDefault(db, account.entity_id, account.entity_type),
                           TRUE, fail)
             db1 == Exit(db, r1)
             r2 == Execute(Enter(db1, r1.n), SetDefaultRow(db1, account_id), TRUE, fail)
             db2 == Exit(db1, r2)
         IN  IF r1.raised THEN Raised(db1, r1)
             ELSE IF r2.raised THEN Raised(db2, r2)
             ELSE Result(db2, "ok", True, FALSE)

\* BankAccount.set_default: both statements in one scope
BankAccountSetDefault(db, account_id, fail) ==
    IF ~AccountExists(db, account_id) THEN Result(db, "ok", False, FALSE)
    ELSE LET account == db.bank_accounts[account_id]
             r1 == Execute(Enter(db, 0),
                           ClearDefault(db, account.entity_id, account.entity_type),
                           TRUE, fail)
             r2 == Execute(r1, SetDefaultRow(r1.db, account_id), TRUE, fail)
             db2 == Exit(db, r2)
         IN  IF r2.raised THEN Raised(db2, r2)
             ELSE Result(db2, "ok", True, FALSE)

(***************************************************************************)
(* Company / Client.  The two classes are the same text over their own      *)
(* table; `t` is the entity type.  Of the optional text columns (county,    *)
(* postal_code, phone, email, website, logo_path), which are all bound and  *)
(* stored alike, the rows carry county.                                     *)
(***************************************************************************)
\* binding of a call to the signature of create: defaults for omitted arguments
CompanyBind(c) ==
    [name |-> c.name, address |-> c.address, city |-> c.city,
     registration_number |-> c.registration_number, fiscal_code |-> c.fiscal_code,
     county |-> IF "county" \in c.given THEN c.county ELSE NULL,
     country |-> IF "country" \in c.given THEN c.country ELSE "Romania",
     vat_payer |-> IF "vat_payer" \in c.given THEN c.vat_payer ELSE TRUE]

ClientBind(c) ==
    [name |-> c.name, address |-> c.address, city |-> c.city,
     registration_number |-> IF "registration_number" \in c.given
                             THEN c.registration_number ELSE NULL,
     fiscal_code |-> c.fiscal_code,
     county |-> IF "county" \in c.given THEN c.county ELSE NULL,
     country |-> IF "country" \in c.given THEN c.country ELSE "Romania",
     vat_payer |-> IF "vat_payer" \in c.given THEN c.vat_payer ELSE TRUE]

\* Company.get / Client.get: SELECT * FROM <table> WHERE id = ?
EntityExists(db, t, id) == id \in DOMAIN Table(db, t)

\* SELECT id FROM <table> WHERE fiscal_code = ?
WithFiscalCode(db, t, fiscal_code) ==
    {i \in DOMAIN Table(db, t) : Table(db, t)[i].fiscal_code = fiscal_code}

\* INSERT INTO companies / clients (...): default_bank_account is left NULL
InsertEntitySwapped(db, t, a) ==
    LET id == db.seq[TableName(t)] + 1
        row == [name |-> a.name, address |-> a.address, city |-> a.city,
                county |-> a.country, country |-> a.county,
                registration_number |-> a.registration_number,
                fiscal_code |-> a.fiscal_code, vat_payer |-> BoolToInt(a.vat_payer),
                default_bank_account |-> NoId]
    IN  [WithTable(db, t, Put(Table(db, t), id, row)) EXCEPT !.seq[TableName(t)] = id]

InsertEntity(db, t, a) ==
    LET id == db.seq[TableName(t)] + 1
        row == [name |-> a.name, address |-> a.address, city |-> a.city,
                county |-> a.county, country |-> a.country,
                registration_number |-> a.registration_number,
                fiscal_code |-> a.fiscal_code, vat_payer |-> BoolToInt(a.vat_payer),
                default_bank_account |-> NoId]
    IN  [WithTable(db, t, Put(Table(db, t), id, row)) EXCEPT !.seq[TableName(t)] = id]

\* NOT NULL columns of the row about to be written
EntityNotNull(t, name, address, city, registration_number, fiscal_code) ==
    /\ name # NULL /\ address # NULL /\ city # NULL /\ fiscal_code # NULL
    /\ (t = "company" => registration_number # NULL)

\* the empty-field checks of create
EntityInvalid(t, a) ==
    \/ Falsy(a.name) \/ Falsy(a.address) \/ Falsy(a.city)
    \/ (t = "company" /\ Falsy(a.registration_number))
    \/ Falsy(a.fiscal_code)

\* the fields named by the ValueError of the empty-field checks of create: the
\* checks run in order and the first that fails raises, with a message about
\* its own field
EntityErrorNames(t, a) ==
    IF Falsy(a.name) THEN {"name"}
    ELSE IF Falsy(a.address) THEN {"address"}
    ELSE IF Falsy(a.city) THEN {"city"}
    ELSE IF t = "company" /\ Falsy(a.registration_number) THEN {"registration_number"}
    ELSE IF Falsy(a.fiscal_code) THEN {"fiscal_code"}
    ELSE {}

\* the format rule of a company's registration number (a bare 6-10 digit string,
\* or one prefixed with a 2-letter country code), on the texts the calls pass
RegistrationNumbers == {"12345678", "RO12345678", "J1", "invalid"}

WellFormedRegistrationNumber(v) == v \in {"12345678", "RO12345678"}

\* Company.create / Client.create
EntityCreateNoCheck(db, t, a, fail) ==
    IF EntityInvalid(t, a) THEN Result(db, "ValueError", 0, FALSE)
    ELSE LET r == Execute(Enter(db, 0), InsertEntity(db, t, a),
                          /\ EntityNotNull(t, a.name, a.address, a.city,
                                           a.registration_number, a.fiscal_code)
                          /\ WithFiscalCode(db, t, a.fiscal_code) = {},
                          fail)
             db1 == Exit(db, r)
         IN  IF r.raised THEN Raised(db1, r)
             ELSE Result(db1, "ok", db1.seq[TableName(t)], FALSE)

EntityCreate(db, t, a, fail) ==
    IF EntityInvalid(t, a) THEN Result(db, "ValueError", 0, FALSE)
    ELSE IF WithFiscalCode(db, t, a.fiscal_code) # {}
    THEN Result(db, "ValueError", 0, FALSE)
    ELSE LET r == Execute(Enter(db, 0), InsertEntity(db, t, a),
                          /\ EntityNotNull(t, a.name, a.address, a.city,
                                           a.registration_number, a.fiscal_code)
                          /\ WithFiscalCode(db, t, a.fiscal_code) = {},
                          fail)
             db1 == Exit(db, r)
         IN  IF r.raised THEN Raised(db1, r)
             ELSE Result(db1, "ok", db1.seq[TableName(t)], FALSE)

\* Company.get / Client.get: fetch_one of SELECT * FROM <table> WHERE id = ?
\* (the set of the rows returned: one <<id, row>>, or none)
Get(db, t, id) ==
    IF EntityExists(db, t, id) THEN {<<id, Table(db, t)[id]>>} ELSE {}

\* Company.get_by_fiscal_code / Client.get_by_fiscal_code: fetch_one takes the
\* first row of the result, the one with the least rowid
GetByFiscalCode(db, t, fiscal_code) ==
    LET ids == WithFiscalCode(db, t, fiscal_code)
        first == CHOOSE i \in ids : \A j \in ids : i <= j
    IN  IF ids = {} THEN {} ELSE {<<first, Table(db, t)[first]>>}

\* the fields Company.update / Client.update may write
EntityAllowedFields(t) ==
    {"name", "address", "city", "county", "postal_code", "country",
     "registration_number", "fiscal_code", "vat_payer",
     "phone", "email", "website", "default_bank_account"}
    \cup (IF t = "company" THEN {"logo_path"} ELSE {})

\* UPDATE companies / clients SET <update_fields> WHERE id = ?
UpdateEntityRow(db, t, id, kw, update_fields) ==
    LET old == Table(db, t)[id]
        new == [old EXCEPT
                  !.fiscal_code = IF "fiscal_code" \in update_fields
                                  THEN kw.fiscal_code ELSE @,
                  !.default_bank_account = IF "default_bank_account" \in update_fields
                                           THEN kw.default_bank_account ELSE @]
    IN  WithTable(db, t, [Table(db, t) EXCEPT ![id] = new])

\* `if 'id' in kwargs`
NamesIdNever(kw) == FALSE

NamesId(kw) == "id" \in kw.keys

\* a new fiscal_code, other than the entity's own, that a row of the table holds
FiscalCodeTakenUnchecked(db, t, id, kw) == FALSE

FiscalCodeTaken(db, t, id, kw) ==
    /\ "fiscal_code" \in kw.keys
    /\ kw.fiscal_code # Table(db, t)[id].fiscal_code
    /\ WithFiscalCode(db, t, kw.fiscal_code) # {}

\* Company.update / Client.update; v is the variant of the method's last scope
EntityUpdateEmptySet(db, t, id, kw, fail, v) ==
    IF ~EntityExists(db, t, id) THEN Result(db, "ok", False, FALSE)
    ELSE IF NamesId(kw) THEN Result(db, "ValueError", 0, FALSE)
    ELSE IF FiscalCodeTaken(db, t, id, kw) THEN Result(db, "ValueError", 0, FALSE)
    ELSE LET update_fields == kw.keys \cap EntityAllowedFields(t)
             fiscal == IF "fiscal_code" \in update_fields
                       THEN kw.fiscal_code ELSE Table(db, t)[id].fiscal_code
             r == Execute(Enter(db, 0), UpdateEntityRow(db, t, id, kw, update_fields),
                          /\ update_fields # {}  \* UPDATE ... SET WHERE: syntax error
                          /\ fiscal # NULL
                          /\ WithFiscalCode(db, t, fiscal) \subseteq {id},
                          fail)
             db1 == Exit(db, r)
         IN  IF r.raised
                  THEN IF v = "guarded"
                       THEN Result(r.db, "ok", False, r.fault)  \* except: print, return False
                       ELSE Raised(db1, r)
                  ELSE Result(db1, "ok", True, FALSE)

EntityUpdate(db, t, id, kw, fail, v) ==
    IF ~EntityExists(db, t, id) THEN Result(db, "ok", False, FALSE)
    ELSE IF NamesId(kw) THEN Result(db, "ValueError", 0, FALSE)
    ELSE IF FiscalCodeTaken(db, t, id, kw) THEN Result(db, "ValueError", 0, FALSE)
    ELSE LET update_fields == kw.keys \cap EntityAllowedFields(t)
             fiscal == IF "fiscal_code" \in update_fields
                       THEN kw.fiscal_code ELSE Table(db, t)[id].fiscal_code
             r == Execute(Enter(db, 0), UpdateEntityRow(db, t, id, kw, update_fields),
                          /\ fiscal # NULL
                          /\ WithFiscalCode(db, t, fiscal) \subseteq {id},
                          fail)
             db1 == Exit(db, r)
         IN  IF update_fields = {} THEN Result(db, "ok", True, FALSE)
             ELSE IF r.raised
                  THEN IF v = "guarded"
                       THEN Result(r.db, "ok", False, r.fault)  \* except: print, return False
                       ELSE Raised(db1, r)
                  ELSE Result(db1, "ok", True, FALSE)

\* the ids of a set in ascending order (the order of a SELECT by rowid)
RECURSIVE Ascending(_)
Ascending(ids) ==
    IF ids = {} THEN <<>>
    ELSE LET m == CHOOSE i \in ids : \A j \in ids : i <= j
         IN  <<m>> \o Ascending(ids \ {m})

\* Company.get_all / Client.get_all: SELECT * FROM <table>, a scan of the table
\* in the order of its row ids
EntityGetAll(db, t) == Ascending(DOMAIN Table(db, t))

\* BINARY collation on the account numbers of the model
AccountNumberRank(n) == IF n = "A1" THEN 1 ELSE 2

\* BankAccount.get_by_entity: SELECT * FROM bank_accounts WHERE entity_id = ? AND
\* entity_type = ?, with no ORDER BY.  SQLite answers it from the index of
\* UNIQUE(entity_id, entity_type, account_number), whose entries for one owner
\* are in the order of account_number
RECURSIVE ByAccountNumber(_, _)
ByAccountNumber(db, ids) ==
    IF ids = {} THEN <<>>
    ELSE LET m == CHOOSE i \in ids : \A j \in ids :
                      AccountNumberRank(db.bank_accounts[i].account_number)
                          <= AccountNumberRank(db.bank_accounts[j].account_number)
         IN  <<m>> \o ByAccountNumber(db, ids \ {m})

BankAccountGetByEntityAnyType(db, entity_id, entity_type) ==
    ByAccountNumber(db, {a \in DOMAIN db.bank_accounts :
                            db.bank_accounts[a].entity_id = entity_id})

BankAccountGetByEntity(db, entity_id, entity_type) ==
    ByAccountNumber(db, AccountsOf(db, entity_id, entity_type))

\* for account in bank_accounts: DELETE FROM bank_accounts WHERE id = ?
RECURSIVE DeleteAccounts(_, _, _)
DeleteAccounts(r, ids, fail) ==
    IF ids = <<>> THEN r
    ELSE DeleteAccounts(Execute(r, DeleteAccountRow(r.db, Head(ids)), TRUE, fail),
                        Tail(ids), fail)

\* DELETE FROM companies / clients WHERE id = ?
DeleteEntityRow(db, t, id) == WithTable(db, t, Remove(Table(db, t), {id}))

\* bank_accounts = get_by_entity(id, t); for account in bank_accounts: DELETE
DeleteOwnedAccountsSkipped(r, db, t, id, fail) == r

DeleteOwnedAccounts(r, db, t, id, fail) ==
    DeleteAccounts(r, BankAccountGetByEntity(db, id, t), fail)

\* Company.delete / Client.delete
EntityDeleteNoRollback(db, t, id, fail, v) ==
    LET r1 == DeleteOwnedAccounts(Enter(db, 0), db, t, id, fail)
        r2 == Execute(r1, DeleteEntityRow(r1.db, t, id), TRUE, fail)
    IN  IF r2.raised
        THEN IF v = "guarded" THEN Result(r2.db, "ok", False, r2.fault)
                              ELSE Raised(r2.db, r2)
        ELSE Result(r2.db, "ok", IF EntityExists(db, t, id) THEN True ELSE False, FALSE)

EntityDelete(db, t, id, fail, v) ==
    LET r1 == DeleteOwnedAccounts(Enter(db, 0), db, t, id, fail)
        r2 == Execute(r1, DeleteEntityRow(r1.db, t, id), TRUE, fail)
    IN  IF r2.raised
        THEN IF v = "guarded"
             THEN \* except: rollback(), return False; the scope then commits nothing
                  Result(Rollback(db, r2), "ok", False, r2.fault)
             ELSE Raised(Exit(db, r2), r2)
        ELSE Result(Exit(db, r2), "ok",
                    IF EntityExists(db, t, id) THEN True ELSE False, FALSE)

\* Company.add_bank_account / Client.add_bank_account
EntityAddBankAccountNoCheck(db, t, id, bank_name, account_number, swift_code, iban, currency, is_default, fail, v) ==
    LET c == BankAccountCreate(db, bank_name, account_number, id, t,
                                    swift_code, iban, currency, is_default, fail)
             kw == [keys |-> {"default_bank_account"}, fiscal_code |-> NULL,
                    default_bank_account |-> c.ret]
             u == EntityUpdate(c.db, t, id, kw, fail - 2, v)
         IN  IF c.outcome # "ok" THEN c
             ELSE IF ~is_default THEN c
             ELSE IF u.outcome # "ok" THEN u
             ELSE Result(u.db, "ok", c.ret, u.fault)

EntityAddBankAccount(db, t, id, bank_name, account_number, swift_code, iban, currency, is_default, fail, v) ==
    IF ~EntityExists(db, t, id) THEN Result(db, "ValueError", 0, FALSE)
    ELSE LET c == BankAccountCreate(db, bank_name, account_number, id, t,
                                    swift_code, iban, currency, is_default, fail)
             kw == [keys |-> {"default_bank_account"}, fiscal_code |-> NULL,
                    default_bank_account |-> c.ret]
             u == EntityUpdate(c.db, t, id, kw, fail - 2, v)
         IN  IF c.outcome # "ok" THEN c
             ELSE IF ~is_default THEN c
             ELSE IF u.outcome # "ok" THEN u
             ELSE Result(u.db, "ok", c.ret, u.fault)

\* Company.get_bank_accounts / Client.get_bank_accounts
EntityGetBankAccounts(db, t, id) ==
    IF ~EntityExists(db, t, id) THEN Result(db, "ValueError", 0, FALSE)
    ELSE Result(db, "ok", Cardinality(AccountsOf(db, id, t)), FALSE)

\* `not account or account['entity_id'] != id or account['entity_type'] != t`
NotOwnedById(db, t, id, account_id) ==
    \/ ~AccountExists(db, account_id)
    \/ db.bank_accounts[account_id].entity_id # id

NotOwned(db, t, id, account_id) ==
    \/ ~AccountExists(db, account_id)
    \/ db.bank_accounts[account_id].entity_id # id
    \/ db.bank_accounts[account_id].entity_type # t

\* Company.set_default_bank_account / Client.set_default_bank_account
EntitySetDefaultBankAccountNoBackRef(db, t, id, account_id, fail, v) ==
    IF ~EntityExists(db, t, id) THEN Result(db, "ValueError", 0, FALSE)
    ELSE IF NotOwned(db, t, id, account_id) THEN Result(db, "ValueError", 0, FALSE)
    ELSE BankAccountSetDefault(db, account_id, fail)

EntitySetDefaultBankAccount(db, t, id, account_id, fail, v) ==
    IF ~EntityExists(db, t, id) THEN Result(db, "ValueError", 0, FALSE)
    ELSE IF NotOwned(db, t, id, account_id) THEN Result(db, "ValueError", 0, FALSE)
    ELSE LET s == BankAccountSetDefault(db, account_id, fail)
             kw == [keys |-> {"default_bank_account"}, fiscal_code |-> NULL,
                    default_bank_account |-> account_id]
             u == EntityUpdate(s.db, t, id, kw, fail - 2, v)
         IN  IF s.outcome # "ok" THEN s
             ELSE IF s.ret = True THEN u
             ELSE Result(s.db, "ok", False, FALSE)

(***************************************************************************)
(* Inputs of the calls                                                      *)

(***************************************************************************)
(* The delete commands of the command line.                                 *)
(***************************************************************************)
\* what can be typed at a prompt
Answers == {"Y", "yes", "n", "", "maybe"}

\* str.lower() on the answers of the model
Lower(a) == IF a = "Y" THEN "y" ELSE a

\* the prompt of @click.confirmation_option: y / yes confirm, n / no and the
\* empty line (the default of the flag) decline, any other line asks again, and
\* the end of the input aborts
RECURSIVE Confirm(_)
Confirm(answers) ==
    IF answers = <<>> THEN FALSE
    ELSE IF Lower(Head(answers)) \in {"y", "yes"} THEN TRUE
    ELSE IF Lower(Head(answers)) \in {"n", "no", ""} THEN FALSE
    ELSE Confirm(Tail(answers))

\* --yes was passed, or the prompt was confirmed
CliConfirmed(yes, answers) == yes \/ Confirm(answers)

CliDeleteNoPrompt(db, t, id, confirmed, fail, v) ==
    IF ~EntityExists(db, t, id) THEN Result(db, "exit", 1, FALSE)
    ELSE LET res == EntityDelete(db, t, id, fail, v)
         IN  IF res.outcome # "ok" THEN res
             ELSE IF res.ret = True THEN Result(res.db, "ok", 0, FALSE)
             ELSE Result(res.db, "exit", 1, res.fault)

\* cli.py delete_company / delete_client: --yes or the prompt, then get, then
\* delete; a command that is not confirmed is aborted before its body
CliDelete(db, t, id, confirmed, fail, v) ==
    IF ~confirmed THEN Result(db, "Abort", 1, FALSE)
    ELSE IF ~EntityExists(db, t, id) THEN Result(db, "exit", 1, FALSE)
    ELSE LET res == EntityDelete(db, t, id, fail, v)
         IN  IF res.outcome # "ok" THEN res
             ELSE IF res.ret = True THEN Result(res.db, "ok", 0, FALSE)
             ELSE Result(res.db, "exit", 1, res.fault)

\* __main__.py, company delete: input(...), and anything but y / Y cancels;
\* delete_company is the delete of the manager
MainDelete(db, id, answer, fail) ==
    IF Lower(answer) # "y" THEN Result(db, "ok", 0, FALSE)
    ELSE LET res == EntityDelete(db, "company", id, fail, "guarded")
         IN  IF res.ret = True THEN Result(res.db, "ok", 0, FALSE)
             ELSE Result(res.db, "exit", 1, res.fault)

(***************************************************************************)
NoOptionals ==
    {[given |-> {}, registration_number |-> NULL, county |-> NULL, country |-> NULL,
      vat_payer |-> TRUE]}

Optionals ==
    NoOptionals \cup
    {[given |-> {"registration_number", "county", "country", "vat_payer"},
      registration_number |-> "J1", county |-> "Cluj", country |-> "Moldova",
      vat_payer |-> FALSE]}

\* the required texts of a call: all present, or one of them empty
Required ==
    {[name |-> "x", address |-> "x", city |-> "x", registration_number |-> "J1"]}
    \cup {[name |-> "", address |-> "x", city |-> "x", registration_number |-> "J1"],
          [name |-> "x", address |-> "", city |-> "x", registration_number |-> "J1"],
          [name |-> "x", address |-> "x", city |-> "", registration_number |-> "J1"],
          [name |-> "x", address |-> "x", city |-> "x", registration_number |-> ""]}

CompanyCalls(F, O) ==
    {[name |-> q.name, address |-> q.address, city |-> q.city,
      registration_number |-> q.registration_number, fiscal_code |-> f,
      given |-> o.given \ {"registration_number"}, county |-> o.county,
      country |-> o.country, vat_payer |-> o.vat_payer] :
        q \in Required, f \in F \cup {""}, o \in O}

ClientCalls(F, O) ==
    {[name |-> q.name, address |-> q.address, city |-> q.city,
      registration_number |-> o.registration_number, fiscal_code |-> f,
      given |-> o.given, county |-> o.county,
      country |-> o.country, vat_payer |-> o.vat_payer] :
        q \in {r \in Required : r.registration_number # ""}, f \in F \cup {""}, o \in O}

\* keyword arguments of Company.update / Client.update
EntityKwargKeys == {"id", "fiscal_code", "default_bank_account", "bogus"}

EntityKwargs(F, D) ==
    {[keys |-> ks,
      fiscal_code |-> IF "fiscal_code" \in ks THEN f ELSE NULL,
      default_bank_account |-> IF "default_bank_account" \in ks THEN d ELSE NoId] :
        ks \in {k \in SUBSET EntityKwargKeys : Cardinality(k) <= MaxKwargs},
        f \in F, d \in D}

\* keyword arguments of BankAccount.update
BankKwargKeys == {"id", "entity_id", "entity_type", "is_default", "account_number", "bogus"}

BankKwargs ==
    {[keys |-> ks,
      is_default |-> IF "is_default" \in ks THEN b ELSE FALSE,
      account_number |-> IF "account_number" \in ks THEN n ELSE NULL] :
        ks \in {k \in SUBSET BankKwargKeys : Cardinality(k) <= MaxKwargs},
        b \in BOOLEAN, n \in AccountNumbers}

\* (bank_name, account_number, entity_id, entity_type) of BankAccount.create:
\* valid ones for the owners 1 .. maxOwner, and one call per validation rule
BankCalls(maxOwner) ==
    {[bank_name |-> "x", account_number |-> n, entity_id |-> e, entity_type |-> t] :
        n \in AccountNumbers, e \in 1 .. maxOwner, t \in EntityTypes}
    \cup {[bank_name |-> "", account_number |-> "A1", entity_id |-> 1, entity_type |-> "company"],
          [bank_name |-> "x", account_number |-> "", entity_id |-> 1, entity_type |-> "company"],
          [bank_name |-> "x", account_number |-> "A1", entity_id |-> 0, entity_type |-> "company"],
          [bank_name |-> "x", account_number |-> "A1", entity_id |-> 1, entity_type |-> "invalid"]}

Variants == {"guarded", "plain"}

\* where the engine fails (0: nowhere) and which variant of the method runs
Faults(maxStmt) == {<<0, "guarded">>} \cup ((1 .. maxStmt) \X Variants)

(***************************************************************************)
(* Actions: one call of a public method, run to completion; the database   *)
(* becomes the one the method leaves.                                       *)
(***************************************************************************)
Return(res) ==
    /\ companies' = res.db.companies
    /\ clients' = res.db.clients
    /\ bank_accounts' = res.db.bank_accounts
    /\ sqlite_sequence' = res.db.seq
    /\ UNCHANGED <<currency_exchange, conn, pc, txn>>

BankCreateStep(c, is_default, fail) ==
    Return(BankAccountCreate(DB, c.bank_name, c.account_number, c.entity_id, c.entity_type, NULL, NULL, "RON", is_default, fail))

BankCreate(cap, maxOwner) ==
    /\ sqlite_sequence.bank_accounts < cap
    /\ \E c \in BankCalls(maxOwner), is_default \in BOOLEAN, fail \in 0 .. 2 :
            BankCreateStep(c, is_default, fail)

BankUpdate(cap) ==
    \E account_id \in 1 .. cap, kw \in BankKwargs, fail \in 0 .. 2 :
        Return(BankAccountUpdate(DB, account_id, kw, fail))

BankDelete(cap) ==
    \E account_id \in 1 .. cap, fail \in 0 .. 1 :
        Return(BankAccountDelete(DB, account_id, fail))

BankSetDefault(cap) ==
    \E account_id \in 1 .. cap, fail \in 0 .. 2 :
        Return(BankAccountSetDefault(DB, account_id, fail))

CompanyCreate(cap, F, O) ==
    /\ sqlite_sequence.companies < cap
    /\ \E c \in CompanyCalls(F, O), fail \in 0 .. 1 :
            Return(EntityCreate(DB, "company", CompanyBind(c), fail))

ClientCreate(cap, F, O) ==
    /\ sqlite_sequence.clients < cap
    /\ \E c \in ClientCalls(F, O), fail \in 0 .. 1 :
            Return(EntityCreate(DB, "client", ClientBind(c), fail))

CompanyUpdate(cap, F, D) ==
    \E id \in 1 .. cap, kw \in EntityKwargs(F, D), fv \in Faults(1) :
        Return(EntityUpdate(DB, "company", id, kw, fv[1], fv[2]))

ClientUpdate(cap, F, D) ==
    \E id \in 1 .. cap, kw \in EntityKwargs(F, D), fv \in Faults(1) :
        Return(EntityUpdate(DB, "client", id, kw, fv[1], fv[2]))

CompanyDelete(cap, maxStmt) ==
    \E id \in 1 .. cap, fv \in Faults(maxStmt) :
        Return(EntityDelete(DB, "company", id, fv[1], fv[2]))

ClientDelete(cap, maxStmt) ==
    \E id \in 1 .. cap, fv \in Faults(maxStmt) :
        Return(EntityDelete(DB, "client", id, fv[1], fv[2]))

\* sequences of at most MaxAnswers lines typed at a prompt
AnswerSeqs == UNION {[1 .. n -> Answers] : n \in 0 .. MaxAnswers}

\* the outcomes of the prompt over everything that can be typed, with and
\* without --yes
CliConfirmations == {CliConfirmed(yes, answers) : yes \in BOOLEAN, answers \in AnswerSeqs}

CliCompanyDelete(cap, maxStmt) ==
    \E id \in 1 .. cap, confirmed \in CliConfirmations, fv \in Faults(maxStmt) :
        Return(CliDelete(DB, "company", id, confirmed, fv[1], fv[2]))

CliClientDelete(cap, maxStmt) ==
    \E id \in 1 .. cap, confirmed \in CliConfirmations, fv \in Faults(maxStmt) :
        Return(CliDelete(DB, "client", id, confirmed, fv[1], fv[2]))

MainCompanyDelete(cap, maxStmt) ==
    \E id \in 1 .. cap, answer \in Answers, fail \in 0 .. maxStmt :
        Return(MainDelete(DB, id, answer, fail))

AddBankAccountStep(t, id, bank_name, account_number, is_default, fail, v) ==
    Return(EntityAddBankAccount(DB, t, id, bank_name, account_number, NULL, NULL, "RON", is_default, fail, v))

CompanyAddBankAccount(cap, accountCap) ==
    /\ sqlite_sequence.bank_accounts < accountCap
    /\ \E id \in 1 .. cap, bank_name \in RequiredText, account_number \in AccountNumbers,
          is_default \in BOOLEAN, fv \in Faults(3) :
            AddBankAccountStep("company", id, bank_name, account_number, is_default,
                               fv[1], fv[2])

ClientAddBankAccount(cap, accountCap) ==
    /\ sqlite_sequence.bank_accounts < accountCap
    /\ \E id \in 1 .. cap, bank_name \in RequiredText, account_number \in AccountNumbers,
          is_default \in BOOLEAN, fv \in Faults(3) :
            AddBankAccountStep("client", id, bank_name, account_number, is_default,
                               fv[1], fv[2])

CompanyGetBankAccounts(cap) ==
    \E id \in 1 .. cap : Return(EntityGetBankAccounts(DB, "company", id))

ClientGetBankAccounts(cap) ==
    \E id \in 1 .. cap : Return(EntityGetBankAccounts(DB, "client", id))

CompanySetDefaultBankAccount(cap, accountCap) ==
    \E id \in 1 .. cap, account_id \in 1 .. accountCap, fv \in Faults(3) :
        Return(EntitySetDefaultBankAccount(DB, "company", id, account_id, fv[1], fv[2]))

ClientSetDefaultBankAccount(cap, accountCap) ==
    \E id \in 1 .. cap, account_id \in 1 .. accountCap, fv \in Faults(3) :
        Return(EntitySetDefaultBankAccount(DB, "client", id, account_id, fv[1], fv[2]))

(***************************************************************************)
(* Specifications                                                           *)
(***************************************************************************)
(***************************************************************************)
(* One scope of the gateway, statement by statement: `with self.db_manager:`*)
(* is entered, the statements of the body run on the open transaction until *)
(* the body ends or one of them raises, a handler inside the scope may call *)
(* rollback(), and the scope is left.                                       *)
(***************************************************************************)
\* with self.db_manager: is entered
ScopeEnter ==
    /\ pc = "idle"
    /\ conn' = "open"
    /\ pc' = "body"
    /\ txn' = Enter(DB, 0)
    /\ UNCHANGED <<companies, clients, bank_accounts, sqlite_sequence, currency_exchange>>

\* a statement of the body runs (or raises) on the open transaction
ScopeStatement(newdb, constraintsHold) ==
    /\ pc = "body" /\ ~txn.raised /\ txn.n < MaxStatements
    /\ \E fail \in {0, txn.n + 1} : txn' = Execute(txn, newdb, constraintsHold, fail)
    /\ UNCHANGED <<companies, clients, bank_accounts, sqlite_sequence, currency_exchange,
                   conn, pc>>

\* the INSERT of BankAccount.create
ScopeInsert ==
    /\ conn = "open" /\ txn.db.seq.bank_accounts < ScopeMaxAccountId
    /\ \E n \in AccountNumbers, d \in {0, 1} :
          ScopeStatement(InsertAccount(txn.db, [bank_name |-> "x", account_number |-> n,
                                               swift_code |-> NULL, iban |-> NULL,
                                               currency |-> "RON", entity_id |-> 1,
                                               entity_type |-> "company", is_default |-> d]),
                         AccountKeyFree(txn.db, NoId, 1, "company", n))

\* the clearing UPDATE of BankAccount.create / update / set_default
ScopeClearDefault ==
    /\ conn = "open"
    /\ ScopeStatement(ClearDefault(txn.db, 1, "company"), TRUE)

\* the flag-setting UPDATE of BankAccount.set_default
ScopeSetDefault ==
    /\ conn = "open"
    /\ \E a \in 1 .. ScopeMaxAccountId : ScopeStatement(SetDefaultRow(txn.db, a), TRUE)

\* the DELETE of BankAccount.delete and of Company.delete / Client.delete
ScopeDelete ==
    /\ conn = "open"
    /\ \E a \in 1 .. ScopeMaxAccountId : ScopeStatement(DeleteAccountRow(txn.db, a), TRUE)

\* except Exception: self.db_manager.rollback() ... return False, inside the scope
ScopeRollback ==
    /\ pc = "body" /\ txn.raised
    /\ txn' = [txn EXCEPT !.db = Rollback(DB, txn), !.raised = FALSE]
    /\ pc' = "except"
    /\ UNCHANGED <<companies, clients, bank_accounts, sqlite_sequence, currency_exchange,
                   conn>>

\* the scope is left, by the end of its body, a return or an exception
ScopeExit ==
    /\ pc \in {"body", "except"}
    /\ LET db == Exit(DB, txn)
       IN  /\ companies' = db.companies
           /\ clients' = db.clients
           /\ bank_accounts' = db.bank_accounts
           /\ sqlite_sequence' = db.seq
    /\ conn' = "closed"
    /\ pc' = "idle"
    /\ txn' = NoTransaction
    /\ UNCHANGED currency_exchange

NoRows == [i \in {} |-> 0]

(***************************************************************************)
(* setup_database: the tables are created if they do not exist, and the     *)
(* default currencies are inserted into currency_exchange, one INSERT each, *)
(* an IntegrityError of the INSERT being skipped.                           *)
(***************************************************************************)
\* currencies = [('RON', 1.0), ('EUR', None), ('USD', None), ('GBP', None)]
DefaultCurrencies ==
    << [currency_code |-> "RON", exchange_rate |-> "1.0"],
       [currency_code |-> "EUR", exchange_rate |-> NULL],
       [currency_code |-> "USD", exchange_rate |-> NULL],
       [currency_code |-> "GBP", exchange_rate |-> NULL] >>

\* INSERT INTO currency_exchange (currency_code, exchange_rate, reference_date)
\* VALUES (?, ?, date('now')) inside try / except sqlite3.IntegrityError: pass;
\* exchange_rate is REAL NOT NULL and (currency_code, reference_date) is UNIQUE
InsertCurrency(rows, c, date) ==
    IF \/ c.exchange_rate = NULL
       \/ \E r \in rows : r.currency_code = c.currency_code /\ r.reference_date = date
    THEN rows
    ELSE rows \cup {[currency_code |-> c.currency_code, exchange_rate |-> c.exchange_rate,
                     reference_date |-> date]}

\* for currency, rate in currencies: ...
RECURSIVE InsertCurrencies(_, _, _)
InsertCurrencies(rows, cs, date) ==
    IF cs = <<>> THEN rows
    ELSE InsertCurrencies(InsertCurrency(rows, Head(cs), date), Tail(cs), date)

\* setup_database on the day `date` (CREATE TABLE IF NOT EXISTS keeps the rows
\* of a database that exists)
SetupDatabase ==
    /\ \E date \in 1 .. MaxDate :
          currency_exchange' = InsertCurrencies(currency_exchange, DefaultCurrencies, date)
    /\ UNCHANGED <<companies, clients, bank_accounts, sqlite_sequence, conn, pc, txn>>

\* the database as setup_database leaves it
Init ==
    /\ companies = NoRows
    /\ clients = NoRows
    /\ bank_accounts = NoRows
    /\ sqlite_sequence = [companies |-> 0, clients |-> 0, bank_accounts |-> 0]
    /\ currency_exchange = InsertCurrencies({}, DefaultCurrencies, 1)
    /\ conn = "closed"
    /\ pc = "idle"
    /\ txn = NoTransaction

MaxOwner == IF MaxCompanyId > MaxClientId THEN MaxCompanyId ELSE MaxClientId

\* every method of the three classes
Next ==
    \/ BankCreate(MaxAccountId, MaxOwner)
    \/ BankUpdate(MaxAccountId)
    \/ BankDelete(MaxAccountId)
    \/ BankSetDefault(MaxAccountId)
    \/ CompanyCreate(MaxCompanyId, OneFiscalCode, NoOptionals)
    \/ ClientCreate(MaxClientId, OneFiscalCode, NoOptionals)
    \/ CompanyUpdate(MaxCompanyId, OneFiscalCode, 0 .. MaxAccountId)
    \/ ClientUpdate(MaxClientId, OneFiscalCode, 0 .. MaxAccountId)
    \/ CompanyDelete(MaxCompanyId, MaxAccountId + 1)
    \/ ClientDelete(MaxClientId, MaxAccountId + 1)
    \/ CompanyAddBankAccount(MaxCompanyId, MaxAccountId)
    \/ ClientAddBankAccount(MaxClientId, MaxAccountId)
    \/ CompanySetDefaultBankAccount(MaxCompanyId, MaxAccountId)
    \/ ClientSetDefaultBankAccount(MaxClientId, MaxAccountId)
    \/ CompanyGetBankAccounts(MaxCompanyId)
    \/ ClientGetBankAccounts(MaxClientId)

Spec == Init /\ [][Next]_vars

\* the methods of BankAccount alone, on accounts of the owners 1 .. 2
NextBank ==
    \/ BankCreate(BankMaxAccountId, 2)
    \/ BankUpdate(BankMaxAccountId)
    \/ BankDelete(BankMaxAccountId)
    \/ BankSetDefault(BankMaxAccountId)

SpecBank == Init /\ [][NextBank]_vars

\* create / update / delete of Company and Client, with no bank account
NextEntity ==
    \/ CompanyCreate(EntityMaxCompanyId, FiscalCodes, Optionals)
    \/ ClientCreate(EntityMaxClientId, FiscalCodes, Optionals)
    \/ CompanyUpdate(EntityMaxCompanyId, FiscalCodes, {NoId})
    \/ ClientUpdate(EntityMaxClientId, FiscalCodes, {NoId})
    \/ CompanyDelete(EntityMaxCompanyId, 1)
    \/ ClientDelete(EntityMaxClientId, 1)

SpecEntity == Init /\ [][NextEntity]_vars

\* entities and their accounts, through Company and Client alone
NextOwner ==
    \/ CompanyCreate(OwnerMaxEntityId, OneFiscalCode, NoOptionals)
    \/ ClientCreate(OwnerMaxEntityId, OneFiscalCode, NoOptionals)
    \/ CompanyAddBankAccount(OwnerMaxEntityId, OwnerMaxAccountId)
    \/ ClientAddBankAccount(OwnerMaxEntityId, OwnerMaxAccountId)
    \/ CompanySetDefaultBankAccount(OwnerMaxEntityId, OwnerMaxAccountId)
    \/ ClientSetDefaultBankAccount(OwnerMaxEntityId, OwnerMaxAccountId)
    \/ CompanyGetBankAccounts(OwnerMaxEntityId)
    \/ ClientGetBankAccounts(OwnerMaxEntityId)
    \/ CompanyDelete(OwnerMaxEntityId, OwnerMaxAccountId + 1)
    \/ ClientDelete(OwnerMaxEntityId, OwnerMaxAccountId + 1)
    \/ CliCompanyDelete(OwnerMaxEntityId, 1)
    \/ CliClientDelete(OwnerMaxEntityId, 1)
    \/ MainCompanyDelete(OwnerMaxEntityId, 1)

SpecOwner == Init /\ [][NextOwner]_vars

\* the three update methods, on rows made by the create methods
NextUpdate ==
    \/ CompanyCreate(UpdateMaxEntityId, OneFiscalCode, NoOptionals)
    \/ ClientCreate(UpdateMaxEntityId, OneFiscalCode, NoOptionals)
    \/ BankCreate(UpdateMaxAccountId, UpdateMaxEntityId)
    \/ CompanyUpdate(UpdateMaxEntityId, OneFiscalCode, {NoId})
    \/ ClientUpdate(UpdateMaxEntityId, OneFiscalCode, {NoId})
    \/ BankUpdate(UpdateMaxAccountId)

SpecUpdate == Init /\ [][NextUpdate]_vars

(***************************************************************************)
(* Properties.  A property of a method is stated for every call of it in    *)
(* every reachable database: the ids tried are the ones issued so far and   *)
(* the next one, which has no row.                                          *)
(***************************************************************************)
EntityIds(t) == 1 .. (sqlite_sequence[TableName(t)] + 1)

Calls(t) ==
    IF t = "company" THEN CompanyCalls(FiscalCodes, Optionals)
                     ELSE ClientCalls(FiscalCodes, Optionals)

Bind(t, c) == IF t = "company" THEN CompanyBind(c) ELSE ClientBind(c)

\* the accounts of an owner that carry the default flag
Defaults(db, entity_id, entity_type) ==
    {a \in AccountsOf(db, entity_id, entity_type) : db.bank_accounts[a].is_default = 1}

Owners == {<<bank_accounts[a].entity_id, bank_accounts[a].entity_type>> :
              a \in DOMAIN bank_accounts}

\* C1: after any sequence of BankAccount.create / update / set_default / delete
\* calls, succeeding or failing, every (entity_id, entity_type) pair has at most
\* one bank account with is_default = 1.
C1_AtMostOneDefault ==
    \A o \in Owners : Cardinality(Defaults(DB, o[1], o[2])) <= 1

\* an owner has a default account, and create with is_default = True for that
\* owner moves the flag to the new account
C1_Witness ==
    /\ sqlite_sequence.bank_accounts < BankMaxAccountId
    /\ \E a \in DOMAIN bank_accounts, n \in AccountNumbers :
          LET e == bank_accounts[a].entity_id
              t == bank_accounts[a].entity_type
              res == BankAccountCreate(DB, "x", n, e, t, NULL, NULL, "RON", TRUE, 0)
          IN  /\ bank_accounts[a].is_default = 1
              /\ res.outcome = "ok"
              /\ Defaults(res.db, e, t) = {res.ret}
              /\ Cardinality(AccountsOf(res.db, e, t)) = 2

UniqueFiscalCode(rows) ==
    \A i, j \in DOMAIN rows : rows[i].fiscal_code = rows[j].fiscal_code => i = j

\* the call has every required text
Complete(t, c) ==
    /\ "" \notin {c.name, c.address, c.city, c.fiscal_code}
    /\ (t = "company" => c.registration_number # "")

\* C2: create with a fiscal code already held by a row of the same table fails
\* with a validation error and adds no row; a create whose fiscal code is not in
\* its own table succeeds whatever the other table holds (so a company and a
\* client may share a code); no two rows of one table share a fiscal code.
C2_DuplicateFiscalCode ==
    /\ UniqueFiscalCode(companies)
    /\ UniqueFiscalCode(clients)
    /\ \A t \in EntityTypes : \A c \in Calls(t), fail \in 0 .. 1 :
          LET res == EntityCreate(DB, t, Bind(t, c), fail)
          IN  /\ WithFiscalCode(DB, t, c.fiscal_code) # {}
                    => res = Result(DB, "ValueError", 0, FALSE)
              /\ (Complete(t, c) /\ WithFiscalCode(DB, t, c.fiscal_code) = {} /\ fail = 0)
                    => /\ res.outcome = "ok"
                       /\ DOMAIN Table(res.db, t) = DOMAIN Table(DB, t) \cup {res.ret}
                       /\ res.ret \notin DOMAIN Table(DB, t)

\* a company and a client share a fiscal code, and a second company with it is refused
C2_Witness ==
    \E i \in DOMAIN companies, j \in DOMAIN clients, c \in Calls("company") :
        /\ companies[i].fiscal_code = clients[j].fiscal_code
        /\ c.fiscal_code = companies[i].fiscal_code
        /\ Complete("company", c)
        /\ EntityCreate(DB, "company", CompanyBind(c), 0).outcome = "ValueError"

\* C3: update of an existing entity that sets fiscal_code to the code of another
\* row of the same table fails with a validation error and changes nothing;
\* setting fiscal_code to the entity's own code succeeds.
C3_UpdateFiscalCode ==
    \A t \in EntityTypes : \A id \in DOMAIN Table(DB, t) :
        \A kw \in EntityKwargs(FiscalCodes, {NoId}), fv \in Faults(1) :
            LET res == EntityUpdate(DB, t, id, kw, fv[1], fv[2])
            IN  ("fiscal_code" \in kw.keys /\ "id" \notin kw.keys)
                  => /\ WithFiscalCode(DB, t, kw.fiscal_code) \ {id} # {}
                          => res = Result(DB, "ValueError", 0, FALSE)
                     /\ (kw.fiscal_code = Table(DB, t)[id].fiscal_code /\ fv[1] = 0)
                          => res = Result(DB, "ok", True, FALSE)

\* two clients hold different codes; giving one the code of the other is refused
C3_Witness ==
    \E i, j \in DOMAIN clients :
        /\ i # j
        /\ EntityUpdate(DB, "client", i,
                        [keys |-> {"fiscal_code"}, fiscal_code |-> clients[j].fiscal_code,
                         default_bank_account |-> NoId], 0, "guarded").outcome = "ValueError"
        /\ EntityUpdate(DB, "client", i,
                        [keys |-> {"fiscal_code"}, fiscal_code |-> clients[i].fiscal_code,
                         default_bank_account |-> NoId], 0, "guarded").ret = True

\* C4: delete of an existing entity with N >= 0 bank accounts, one of which may be
\* the account its default_bank_account refers to, returns True when no statement
\* fails; afterwards the entity row is gone and no bank account has its
\* (entity_id, entity_type).
C4_DeleteRemovesAccounts ==
    \A t \in EntityTypes : \A id \in DOMAIN Table(DB, t), v \in Variants :
        LET res == EntityDelete(DB, t, id, 0, v)
        IN  /\ res.outcome = "ok" /\ res.ret = True
            /\ ~EntityExists(res.db, t, id)
            /\ AccountsOf(res.db, id, t) = {}

\* an entity owns two accounts, one of them its default_bank_account, and delete
\* removes the three rows
C4_Witness ==
    \E t \in EntityTypes : \E id \in DOMAIN Table(DB, t) :
        LET res == EntityDelete(DB, t, id, 0, "guarded")
        IN  /\ Cardinality(AccountsOf(DB, id, t)) = 2
            /\ Table(DB, t)[id].default_bank_account \in AccountsOf(DB, id, t)
            /\ res.ret = True
            /\ DOMAIN res.db.bank_accounts = DOMAIN bank_accounts \ AccountsOf(DB, id, t)

\* C5: if a statement of delete fails, the entity row and all its bank accounts
\* are afterwards as they were before the call.
C5_DeleteAllOrNothing ==
    \A t \in EntityTypes : \A id \in EntityIds(t), fv \in Faults(OwnerMaxAccountId + 1) :
        LET res == EntityDelete(DB, t, id, fv[1], fv[2])
        IN  res.fault => res.db = DB

\* an entity owns two accounts and the second DELETE of its delete fails
C5_Witness ==
    \E t \in EntityTypes : \E id \in DOMAIN Table(DB, t) :
        /\ Cardinality(AccountsOf(DB, id, t)) = 2
        /\ EntityDelete(DB, t, id, 2, "guarded").fault
        /\ EntityDelete(DB, t, id, 2, "guarded").ret = False
        /\ EntityDelete(DB, t, id, 3, "plain").outcome = "DatabaseError"

\* every account that carries the default flag in db carries it in after
DefaultsKept(db, after) ==
    \A a \in DOMAIN db.bank_accounts :
        db.bank_accounts[a].is_default = 1
            => a \in DOMAIN after.bank_accounts /\ after.bank_accounts[a].is_default = 1

\* C6: when BankAccount.create / update with is_default = True fails in its
\* INSERT / UPDATE, the account that was the default before the call still has
\* is_default = 1 afterwards.
C6_DefaultSurvivesFailure ==
    /\ \A c \in BankCalls(2), fail \in {0, 2} :
          LET res == BankAccountCreate(DB, c.bank_name, c.account_number, c.entity_id, c.entity_type, NULL, NULL, "RON", TRUE, fail)
          IN  res.outcome = "DatabaseError" => DefaultsKept(DB, res.db)
    /\ \A account_id \in DOMAIN bank_accounts, kw \in BankKwargs, fail \in {0, 2} :
          LET res == BankAccountUpdate(DB, account_id, kw, fail)
          IN  ("is_default" \in kw.keys /\ kw.is_default /\ res.outcome = "DatabaseError")
                  => DefaultsKept(DB, res.db)

\* the row create must leave for the call c: the values passed, the defaults of
\* the signature for the omitted ones (a BOOLEAN column reads back as 0 / 1,
\* which Python compares equal to False / True)
Created(t, c, row) ==
    /\ row.name = c.name /\ row.address = c.address /\ row.city = c.city
    /\ row.fiscal_code = c.fiscal_code
    /\ row.registration_number =
         (IF t = "company" \/ "registration_number" \in c.given
          THEN c.registration_number ELSE NULL)
    /\ row.county = (IF "county" \in c.given THEN c.county ELSE NULL)
    /\ row.country = (IF "country" \in c.given THEN c.country ELSE "Romania")
    /\ Truthy(row.vat_payer) = (IF "vat_payer" \in c.given THEN c.vat_payer ELSE TRUE)
    /\ row.default_bank_account = NoId

RoundTrip(db, t, c, id) ==
    LET byId == Get(db, t, id)
        byCode == GetByFiscalCode(db, t, c.fiscal_code)
    IN  /\ byId = byCode
        /\ \E r \in byId : r[1] = id /\ Created(t, c, r[2])

\* C7: right after a successful create returning id i for fiscal code f, get(i)
\* and get_by_fiscal_code(f) return the same record, whose fields are the values
\* passed to create (the defaults for omitted optional fields).
C7_RoundTrip ==
    \A t \in EntityTypes : \A c \in Calls(t) :
        LET res == EntityCreate(DB, t, Bind(t, c), 0)
        IN  res.outcome = "ok" => RoundTrip(res.db, t, c, res.ret)

\* a create left a row holding the default country beside an older row, and the
\* two lookups of the new row agree
C7_Witness ==
    /\ DOMAIN companies = {1, 2}
    /\ companies[2].country = "Romania" /\ companies[1].country = "Moldova"
    /\ Get(DB, "company", 2) = GetByFiscalCode(DB, "company", companies[2].fiscal_code)

\* C8: Company.update, Client.update and BankAccount.update on an existing row,
\* with no argument or only unrecognized field names, return True and leave every
\* row of every table unchanged.
C8_UpdateNothing ==
    /\ \A t \in EntityTypes : \A id \in DOMAIN Table(DB, t) :
          \A kw \in EntityKwargs(OneFiscalCode, {NoId}), fv \in Faults(1) :
              kw.keys \subseteq {"bogus"}
                  => EntityUpdate(DB, t, id, kw, fv[1], fv[2]) = Result(DB, "ok", True, FALSE)
    /\ \A account_id \in DOMAIN bank_accounts, kw \in BankKwargs, fail \in 0 .. 2 :
          kw.keys \subseteq {"bogus"}
              => BankAccountUpdate(DB, account_id, kw, fail) = Result(DB, "ok", True, FALSE)

\* a company, a client and a bank account exist, and update of the company with
\* no field and with an unrecognized one returns True
C8_Witness ==
    /\ DOMAIN companies # {} /\ DOMAIN clients # {} /\ DOMAIN bank_accounts # {}
    /\ \A ks \in {{}, {"bogus"}} : \E id \in DOMAIN companies :
          EntityUpdate(DB, "company", id,
                       [keys |-> ks, fiscal_code |-> NULL, default_bank_account |-> NoId],
                       0, "guarded").ret = True

\* C9 as stated: update whose fields include 'id' fails with a validation error,
\* for every entity id passed, existing or not.
C9_AsStated ==
    \A t \in EntityTypes : \A id \in EntityIds(t) :
        \A kw \in EntityKwargs(FiscalCodes, {NoId}), fv \in Faults(1) :
            "id" \in kw.keys
                => EntityUpdate(DB, t, id, kw, fv[1], fv[2]).outcome = "ValueError"

\* C9 (amended): update of an existing entity whose fields include 'id' fails with
\* a validation error whatever other fields come with it; for an id with no row
\* the call returns False without raising; update with 'id' leaves every row
\* unchanged whether the entity exists or not.
C9_UpdateId ==
    \A t \in EntityTypes : \A id \in EntityIds(t) :
        \A kw \in EntityKwargs(FiscalCodes, {NoId}), fv \in Faults(1) :
            "id" \in kw.keys
                => EntityUpdate(DB, t, id, kw, fv[1], fv[2]) =
                     (IF EntityExists(DB, t, id) THEN Result(DB, "ValueError", 0, FALSE)
                                                 ELSE Result(DB, "ok", False, FALSE))

\* a company exists, an id with no row was issued before, and update with 'id'
\* beside a valid field is refused for the first and returns False for the second
C9_Witness ==
    \E id \in DOMAIN companies, gone \in 1 .. sqlite_sequence.companies :
        LET kw == [keys |-> {"id", "fiscal_code"}, fiscal_code |-> "RO2",
                   default_bank_account |-> NoId]
        IN  /\ gone \notin DOMAIN companies
            /\ EntityUpdate(DB, "company", id, kw, 0, "guarded").outcome = "ValueError"
            /\ EntityUpdate(DB, "company", gone, kw, 0, "guarded").ret = False

\* C10: entity_id and entity_type of a bank account (and the id it is stored under)
\* never change while the account exists; BankAccount.update of an existing account
\* that names id, entity_id or entity_type raises a validation error and modifies
\* no row, also when is_default = True is passed with it.
C10_ImmutableOwner ==
    /\ [](\A a \in DOMAIN bank_accounts, kw \in BankKwargs, fail \in 0 .. 2 :
            kw.keys \cap {"id", "entity_id", "entity_type"} # {}
                => BankAccountUpdate(DB, a, kw, fail) = Result(DB, "ValueError", 0, FALSE))
    /\ [][\A a \in DOMAIN bank_accounts \cap DOMAIN bank_accounts' :
            /\ bank_accounts'[a].entity_id = bank_accounts[a].entity_id
            /\ bank_accounts'[a].entity_type = bank_accounts[a].entity_type]_vars

\* an account holds the default flag, and update naming entity_id together with
\* is_default = True is refused without clearing it
C10_Witness ==
    \E a \in DOMAIN bank_accounts :
        LET kw == [keys |-> {"entity_id", "is_default"}, is_default |-> TRUE,
                   account_number |-> NULL]
            res == BankAccountUpdate(DB, a, kw, 0)
        IN  /\ bank_accounts[a].is_default = 1
            /\ kw \in BankKwargs
            /\ res.outcome = "ValueError"
            /\ res.db.bank_accounts[a].is_default = 1

\* C11: after a successful add_bank_account with is_default = True returning
\* account id a on an existing entity e, a is the only account of e with
\* is_default = 1 and e's default_bank_account equals a, whatever accounts and
\* default e had before.
C11_AddDefault ==
    \A t \in EntityTypes : \A id \in DOMAIN Table(DB, t) :
        \A bank_name \in RequiredText, account_number \in AccountNumbers, fv \in Faults(3) :
            LET res == EntityAddBankAccount(DB, t, id, bank_name, account_number, NULL, NULL, "RON", TRUE, fv[1], fv[2])
            IN  res.outcome = "ok"
                  => /\ Defaults(res.db, id, t) = {res.ret}
                     /\ Table(res.db, t)[id].default_bank_account = res.ret

\* C12: when account a exists and belongs to the existing entity e,
\* set_default_bank_account(e, a) returns True (no statement failing) and
\* afterwards a has is_default = 1, every other account of e has is_default = 0,
\* and e's default_bank_account equals a.
C12_SetDefaultBankAccount ==
    \A t \in EntityTypes : \A id \in DOMAIN Table(DB, t) :
        \A a \in AccountsOf(DB, id, t), v \in Variants :
            LET res == EntitySetDefaultBankAccount(DB, t, id, a, 0, v)
            IN  /\ res.outcome = "ok" /\ res.ret = True
                /\ Defaults(res.db, id, t) = {a}
                /\ AccountsOf(res.db, id, t) = AccountsOf(DB, id, t)
                /\ Table(res.db, t)[id].default_bank_account = a

\* an entity has two accounts, the default one being its default_bank_account,
\* and set_default_bank_account moves both the flag and the reference to the other
C12_Witness ==
    \E t \in EntityTypes : \E id \in DOMAIN Table(DB, t) :
        \E a, b \in AccountsOf(DB, id, t) :
            LET res == EntitySetDefaultBankAccount(DB, t, id, a, 0, "guarded")
            IN  /\ a # b
                /\ Defaults(DB, id, t) = {b}
                /\ Table(DB, t)[id].default_bank_account = b
                /\ res.ret = True
                /\ res.db.bank_accounts[b].is_default = 0
                /\ Table(res.db, t)[id].default_bank_account = a

\* C13: set_default_bank_account(e, a) fails with a validation error and changes
\* no is_default flag and no default_bank_account when e does not exist, when a
\* does not exist, or when a belongs to another owner, including an owner of the
\* other entity type that has the same numeric id as e.
C13_SetDefaultRefused ==
    \A t \in EntityTypes : \A id \in EntityIds(t) :
        \A a \in 1 .. (sqlite_sequence.bank_accounts + 1), fv \in Faults(3) :
            (~EntityExists(DB, t, id) \/ a \notin AccountsOf(DB, id, t))
                => EntitySetDefaultBankAccount(DB, t, id, a, fv[1], fv[2])
                     = Result(DB, "ValueError", 0, FALSE)

\* a company and a client have the same id, the account belongs to the client,
\* and the company is refused it
C13_Witness ==
    \E id \in DOMAIN companies \cap DOMAIN clients : \E a \in AccountsOf(DB, id, "client") :
        /\ AccountsOf(DB, id, "company") # {}
        /\ EntitySetDefaultBankAccount(DB, "company", id, a, 0, "guarded").outcome = "ValueError"
        /\ EntitySetDefaultBankAccount(DB, "client", id, a, 0, "guarded").outcome = "ok"

\* C14: add_bank_account and get_bank_accounts of Company / Client called with the
\* id of an entity that does not exist fail with a validation error, and
\* add_bank_account then creates no bank_accounts row and clears no default flag,
\* even when is_default = True.
C14_NoSuchEntity ==
    \A t \in EntityTypes : \A id \in EntityIds(t) :
        ~EntityExists(DB, t, id)
            => /\ EntityGetBankAccounts(DB, t, id) = Result(DB, "ValueError", 0, FALSE)
               /\ \A bank_name \in RequiredText, account_number \in AccountNumbers :
                    \A is_default \in BOOLEAN, fv \in Faults(3) :
                        EntityAddBankAccount(DB, t, id, bank_name, account_number, NULL, NULL, "RON", is_default, fv[1], fv[2])
                            = Result(DB, "ValueError", 0, FALSE)

\* no company has the id, a default account is attached to that id, and
\* add_bank_account with is_default = True is refused
C14_Witness ==
    \E id \in EntityIds("company") :
        /\ ~EntityExists(DB, "company", id)
        /\ Defaults(DB, id, "company") # {}
        /\ EntityAddBankAccount(DB, "company", id, "x", "A2", NULL, NULL, "RON", TRUE, 0, "guarded").outcome = "ValueError"

\* C15: bank account creation fails when the owning entity does not exist, so
\* after any sequence of public operations of BankAccount, Company and Client
\* every bank_accounts row has an (entity_id, entity_type) that identifies an
\* existing company or client row.
C15_OwnersExist ==
    /\ \A a \in DOMAIN bank_accounts :
          EntityExists(DB, bank_accounts[a].entity_type, bank_accounts[a].entity_id)
    /\ \A c \in BankCalls(MaxOwner), is_default \in BOOLEAN :
          ~EntityExists(DB, c.entity_type, c.entity_id)
              => BankAccountCreate(DB, c.bank_name, c.account_number, c.entity_id, c.entity_type, NULL, NULL, "RON", is_default, 0).outcome # "ok"

\* C16: after any sequence of public operations of Company, Client and BankAccount
\* (BankAccount.delete and entity update with a default_bank_account field
\* included), an entity's default_bank_account is either null or the id of an
\* existing bank account whose (entity_id, entity_type) is that entity.
C16_DefaultRefOwned ==
    \A t \in EntityTypes : \A id \in DOMAIN Table(DB, t) :
        \/ Table(DB, t)[id].default_bank_account = NoId
        \/ Table(DB, t)[id].default_bank_account \in AccountsOf(DB, id, t)

\* C17: every operation that ends in a validation error (empty required field,
\* invalid entity_type, entity_id <= 0, immutable-field change, duplicate fiscal
\* code) leaves all rows of companies, clients and bank_accounts exactly as they
\* were before the call.
C17_ValidationFrame ==
    LET Unchanged(res) == res.outcome = "ValueError" => res.db = DB
    IN
        /\ \A c \in BankCalls(MaxOwner), is_default \in BOOLEAN, fail \in 0 .. 2 :
              Unchanged(BankAccountCreate(DB, c.bank_name, c.account_number, c.entity_id, c.entity_type, NULL, NULL, "RON", is_default, fail))
        /\ \A a \in 1 .. (sqlite_sequence.bank_accounts + 1), kw \in BankKwargs, fail \in 0 .. 2 :
              Unchanged(BankAccountUpdate(DB, a, kw, fail))
        /\ \A t \in EntityTypes : \A c \in Calls(t), fail \in 0 .. 1 :
              Unchanged(EntityCreate(DB, t, Bind(t, c), fail))
        /\ \A t \in EntityTypes : \A id \in EntityIds(t), fv \in Faults(3) :
              /\ \A kw \in EntityKwargs(FiscalCodes, 0 .. MaxAccountId) :
                    Unchanged(EntityUpdate(DB, t, id, kw, fv[1], fv[2]))
              /\ \A bank_name \in RequiredText, n \in AccountNumbers, is_default \in BOOLEAN :
                    Unchanged(EntityAddBankAccount(DB, t, id, bank_name, n, NULL, NULL, "RON", is_default, fv[1], fv[2]))
              /\ \A a \in 1 .. (sqlite_sequence.bank_accounts + 1) :
                    Unchanged(EntitySetDefaultBankAccount(DB, t, id, a, fv[1], fv[2]))
              /\ Unchanged(EntityGetBankAccounts(DB, t, id))

\* a company holds a fiscal code and owns a default account, and calls of the
\* five kinds are each refused: empty field, invalid entity_type, entity_id <= 0,
\* immutable field, duplicate fiscal code
C17_Witness ==
    \E id \in DOMAIN companies : \E a \in Defaults(DB, id, "company") :
        /\ BankAccountCreate(DB, "", "A1", id, "company", NULL, NULL, "RON", TRUE, 0).outcome = "ValueError"
        /\ BankAccountCreate(DB, "x", "A1", id, "invalid", NULL, NULL, "RON", TRUE, 0).outcome = "ValueError"
        /\ BankAccountCreate(DB, "x", "A1", 0, "company", NULL, NULL, "RON", TRUE, 0).outcome = "ValueError"
        /\ BankAccountUpdate(DB, a, [keys |-> {"entity_type", "is_default"}, is_default |-> TRUE, account_number |-> NULL], 0).outcome = "ValueError"
        /\ \E c \in Calls("company") :
              /\ Complete("company", c) /\ c.fiscal_code = companies[id].fiscal_code
              /\ EntityCreate(DB, "company", CompanyBind(c), 0).outcome = "ValueError"
        /\ EntityAddBankAccount(DB, "company", id, "", "A1", NULL, NULL, "RON", TRUE, 0, "guarded").outcome = "ValueError"

\* C18: when a Company.create call has several invalid fields at once (an empty
\* name and an empty city, say), the single validation error it raises names
\* every invalid field, not only the first one checked.
C18_NamesEveryField ==
    \A c \in Calls("company"), name \in RequiredText, city \in RequiredText :
        LET a == [CompanyBind(c) EXCEPT !.name = name, !.city = city]
            invalid == {f \in {"name", "address", "city", "registration_number", "fiscal_code"} : Falsy(a[f])}
        IN  invalid # {}
              => /\ EntityCreate(DB, "company", a, 0).outcome = "ValueError"
                 /\ EntityErrorNames("company", a) = invalid

\* C19: creating a company whose registration number (or email, VAT number,
\* phone, website) is present but does not match its format rule fails with a
\* validation error and inserts no row.
C19_FormatChecked ==
    \A c \in Calls("company"), rn \in RegistrationNumbers :
        LET a == [CompanyBind(c) EXCEPT !.registration_number = rn]
            res == EntityCreate(DB, "company", a, 0)
        IN  ~WellFormedRegistrationNumber(rn)
              => /\ res.outcome = "ValueError"
                 /\ res.db = DB

\* C20: a storage-engine failure raised by a statement inside a manager
\* operation (the UPDATE of update, a DELETE of delete, ...) reaches the caller
\* as an error; it is never turned into a plain False return value.
C20_FailureSurfaces ==
    LET Surfaces(res) == res.fault => res.outcome = "DatabaseError"
    IN  /\ \A t \in EntityTypes : \A id \in DOMAIN Table(DB, t), fv \in Faults(MaxAccountId + 1) :
              /\ \A kw \in EntityKwargs(FiscalCodes, 0 .. MaxAccountId) :
                    Surfaces(EntityUpdate(DB, t, id, kw, fv[1], fv[2]))
              /\ Surfaces(EntityDelete(DB, t, id, fv[1], fv[2]))
              /\ \A a \in DOMAIN bank_accounts :
                    Surfaces(EntitySetDefaultBankAccount(DB, t, id, a, fv[1], fv[2]))
        /\ \A t \in EntityTypes : \A c \in Calls(t), fail \in 0 .. 1 :
              Surfaces(EntityCreate(DB, t, Bind(t, c), fail))
        /\ \A a \in DOMAIN bank_accounts, kw \in BankKwargs, fail \in 0 .. 2 :
              Surfaces(BankAccountUpdate(DB, a, kw, fail))

\* one scope of the gateway after another, statement by statement; a scope that
\* was entered is left (the body of a `with` block is finite)
NextScope ==
    \/ ScopeEnter
    \/ ScopeInsert
    \/ ScopeClearDefault
    \/ ScopeSetDefault
    \/ ScopeDelete
    \/ ScopeRollback
    \/ ScopeExit

SpecScope == Init /\ [][NextScope]_vars /\ WF_vars(ScopeExit)

\* C21: the gateway's scope commits when it is left without an error, rolls back
\* when it is left with an error, and in both cases leaves no open connection
\* behind: outside a scope the connection is closed, and a connection that was
\* opened is closed again.
C21_Scope ==
    /\ [](pc = "idle" => conn = "closed")
    /\ [][pc # "idle" /\ pc' = "idle"
            => /\ conn' = "closed"
               /\ DB' = (IF txn.raised THEN DB ELSE txn.db)]_vars
    /\ (conn = "open" ~> conn = "closed")

\* a scope committed an account, and a later scope is about to be left with an
\* error raised by its second statement, after a first one that took effect
C21_Witness ==
    /\ DOMAIN bank_accounts = {1}
    /\ conn = "open" /\ txn.raised /\ txn.n = 2 /\ txn.db # DB

\* C22: BankAccount.set_default(a) on a nonexistent account id returns False and
\* changes no row; on an existing account it clears the owner's other default
\* flags and sets a's flag in one transaction: the database it leaves has a as
\* the owner's only default, or, when a statement failed, is the one it found.
C22_SetDefault ==
    \A a \in 1 .. (sqlite_sequence.bank_accounts + 1), fail \in 0 .. 2 :
        LET res == BankAccountSetDefault(DB, a, fail)
        IN  IF ~AccountExists(DB, a)
            THEN res = Result(DB, "ok", False, FALSE)
            ELSE LET owner == bank_accounts[a]
                 IN  /\ res.outcome = "ok"
                         => /\ res.ret = True
                            /\ Defaults(res.db, owner.entity_id, owner.entity_type) = {a}
                            /\ res.db = [ClearDefault(DB, owner.entity_id, owner.entity_type) EXCEPT !.bank_accounts[a].is_default = 1]
                     /\ res.outcome # "ok" => res.db = DB
                     /\ fail = 0 => res.outcome = "ok"

\* an owner has a default account and another one; set_default of the other
\* moves the flag, and leaves it in place when its second statement fails
C22_Witness ==
    \E a, b \in DOMAIN bank_accounts :
        /\ a # b
        /\ bank_accounts[a].entity_id = bank_accounts[b].entity_id
        /\ bank_accounts[a].entity_type = bank_accounts[b].entity_type
        /\ bank_accounts[a].is_default = 1 /\ bank_accounts[b].is_default = 0
        /\ BankAccountSetDefault(DB, b, 0).db.bank_accounts[a].is_default = 0
        /\ BankAccountSetDefault(DB, b, 2).db = DB
        /\ BankAccountSetDefault(DB, b, 2).outcome = "DatabaseError"

\* C23: get_all of Company / Client and BankAccount.get_by_entity return exactly
\* the currently stored rows (of the table, respectively of the owner), each
\* once, in the order in which they were created (the order of their ids).
C23_InsertionOrder ==
    LET InOrder(rows, stored) == /\ {rows[i] : i \in DOMAIN rows} = stored
                                 /\ Len(rows) = Cardinality(stored)
                                 /\ \A i, j \in DOMAIN rows : i < j => rows[i] < rows[j]
    IN  /\ \A t \in EntityTypes : InOrder(EntityGetAll(DB, t), DOMAIN Table(DB, t))
        /\ \A t \in EntityTypes : \A id \in EntityIds(t) :
              InOrder(BankAccountGetByEntity(DB, id, t), AccountsOf(DB, id, t))

\* setup_database, run first on a new file and again on the database in use
NextSetup ==
    \/ SetupDatabase
    \/ CompanyCreate(SetupMaxEntityId, FiscalCodes, NoOptionals)
    \/ ClientCreate(SetupMaxEntityId, FiscalCodes, NoOptionals)
    \/ CompanyDelete(SetupMaxEntityId, 1)
    \/ ClientDelete(SetupMaxEntityId, 1)

SpecSetup == Init /\ [][NextSetup]_vars

\* C24: after setup_database succeeds on a new database file, currency_exchange
\* holds one row for each of the four default currencies RON, EUR, USD and GBP
\* (and a later run of setup_database keeps them).
C24_DefaultCurrencies ==
    /\ \A date \in 1 .. MaxDate :
          LET rows == InsertCurrencies({}, DefaultCurrencies, date)
          IN  /\ {r.currency_code : r \in rows} = {"RON", "EUR", "USD", "GBP"}
              /\ Cardinality(rows) = 4
    /\ {r.currency_code : r \in currency_exchange} = {"RON", "EUR", "USD", "GBP"}

C26_OtherOwnersKept ==
    LET Kept(res, entity_id, entity_type) ==
            \A b \in DOMAIN bank_accounts :
                <<bank_accounts[b].entity_id, bank_accounts[b].entity_type>> # <<entity_id, entity_type>>
                    => /\ b \in DOMAIN res.db.bank_accounts
                       /\ res.db.bank_accounts[b] = bank_accounts[b]
    IN  /\ \A c \in BankCalls(2), fail \in 0 .. 2 :
              Kept(BankAccountCreate(DB, c.bank_name, c.account_number, c.entity_id, c.entity_type, NULL, NULL, "RON", TRUE, fail), c.entity_id, c.entity_type)
        /\ \A a \in DOMAIN bank_accounts, fail \in 0 .. 2 :
              /\ \A kw \in BankKwargs :
                    ("is_default" \in kw.keys /\ kw.is_default)
                        => Kept(BankAccountUpdate(DB, a, kw, fail), bank_accounts[a].entity_id, bank_accounts[a].entity_type)
              /\ Kept(BankAccountSetDefault(DB, a, fail), bank_accounts[a].entity_id, bank_accounts[a].entity_type)

\* company k and client k each have a default account, and each of the three
\* operations makes another account the default of company k
C26_Witness ==
    \E a, b \in DOMAIN bank_accounts :
        /\ bank_accounts[a].entity_id = bank_accounts[b].entity_id
        /\ bank_accounts[a].entity_type = "company" /\ bank_accounts[b].entity_type = "client"
        /\ bank_accounts[a].is_default = 1 /\ bank_accounts[b].is_default = 1
        /\ \E n \in AccountNumbers :
              LET res == BankAccountCreate(DB, "x", n, bank_accounts[a].entity_id, "company", NULL, NULL, "RON", TRUE, 0)
              IN  res.outcome = "ok" /\ res.db.bank_accounts[a].is_default = 0
        /\ BankAccountSetDefault(DB, a, 0).ret = True
        /\ BankAccountUpdate(DB, a, [keys |-> {"is_default"}, is_default |-> TRUE, account_number |-> NULL], 0).ret = True

C28_DefaultRefMatchesFlag ==
    \A t \in EntityTypes : \A id \in DOMAIN Table(DB, t) :
        IF Defaults(DB, id, t) = {}
        THEN Table(DB, t)[id].default_bank_account = NoId
        ELSE Defaults(DB, id, t) = {Table(DB, t)[id].default_bank_account}

\* C29: identifiers returned by Company.create, Client.create and
\* BankAccount.create are positive and, within one table, strictly greater than
\* every identifier the table has ever issued: no row has an id above the
\* table's counter, the counter never goes back, and a create returns an id
\* above the counter, so the id of a deleted row is never given to a later row.
C29_FreshIds ==
    /\ [](/\ \A t \in EntityTypes : \A id \in DOMAIN Table(DB, t) :
                id \in 1 .. sqlite_sequence[TableName(t)]
          /\ \A a \in DOMAIN bank_accounts : a \in 1 .. sqlite_sequence.bank_accounts
          /\ \A t \in EntityTypes : \A c \in {d \in Calls(t) : Complete(t, d)}, fail \in 0 .. 1 :
                LET res == EntityCreate(DB, t, Bind(t, c), fail)
                IN  res.outcome = "ok"
                      => /\ res.ret > sqlite_sequence[TableName(t)]
                         /\ res.ret \in DOMAIN Table(res.db, t) \ DOMAIN Table(DB, t)
                         /\ res.db.seq[TableName(t)] = res.ret
          /\ \A c \in BankCalls(MaxOwner), is_default \in BOOLEAN, fail \in 0 .. 2 :
                LET res == BankAccountCreate(DB, c.bank_name, c.account_number, c.entity_id, c.entity_type, NULL, NULL, "RON", is_default, fail)
                IN  res.outcome = "ok"
                      => /\ res.ret > sqlite_sequence.bank_accounts
                         /\ res.ret \in DOMAIN res.db.bank_accounts \ DOMAIN bank_accounts
                         /\ res.db.seq.bank_accounts = res.ret)
    /\ [][\A n \in DOMAIN sqlite_sequence : sqlite_sequence'[n] >= sqlite_sequence[n]]_vars

\* the rows with the highest id of a table of entities and of bank_accounts
\* were deleted, a company still refers to the deleted account, and the next
\* creates return ids above the deleted ones
C29_Witness ==
    /\ sqlite_sequence.clients > 0 /\ sqlite_sequence.clients \notin DOMAIN clients
    /\ sqlite_sequence.bank_accounts > 0
    /\ sqlite_sequence.bank_accounts \notin DOMAIN bank_accounts
    /\ \E id \in DOMAIN companies :
          companies[id].default_bank_account = sqlite_sequence.bank_accounts
    /\ BankAccountCreate(DB, "x", "A1", 1, "company", NULL, NULL, "RON", FALSE, 0).ret = sqlite_sequence.bank_accounts + 1
    /\ \E c \in Calls("client") :
          EntityCreate(DB, "client", ClientBind(c), 0).ret = sqlite_sequence.clients + 1

\* C30: Company.delete / Client.delete called with an id for which no entity row
\* exists returns False and leaves every row of companies, clients and
\* bank_accounts unchanged, including bank accounts that carry that entity_id.
C30_DeleteMissing ==
    \A t \in EntityTypes : \A id \in EntityIds(t) \ DOMAIN Table(DB, t), v \in Variants :
        EntityDelete(DB, t, id, 0, v) = Result(DB, "ok", False, FALSE)

====
